---- MODULE Spec2Model ----
(***************************************************************************)
(* Conway's Game of Life (conway.py): the Board (cells, neighbours,        *)
(* advance, rendering), the history of board hashes with the stability     *)
(* rule, and the main loop with end() and the KeyboardInterrupt handler.   *)
(***************************************************************************)
EXTENDS Integers, Sequences, FiniteSets, TLC

\* ---------------------------------------------------------------- bounds
MaxDim == 5          \* largest width and height of the pattern grids of SpecGrid
MaxCells == 9        \* SpecGrid starts from every grid of at most this many cells
MaxSeedCells == 3    \* Spec also starts from every grid of at most this many cells
MaxHeap == 6         \* most distinct addresses deepcopy allocates boards at
MaxAge == 100        \* the main loop is followed up to this generation
MaxGridSteps == 2    \* advances applied to each grid of SpecGrid
MaxCols == 1         \* most terminal columns of SpecStart
MaxLines == 4        \* most terminal lines of SpecStart
MaxLoopCells == 6    \* SpecCells starts from every grid of at most this many cells

\* ------------------------------------------------------ program constants
ALIVE == "O"
DEAD == " "
DENSITY == 25
HistoryCap == 30
AgeThreshold == 30
MinDistinct == 5

VARIABLES
    width, height,   \* Board.width, Board.height
    board,           \* Board.board: [y -> [x -> Cell.alive]]
    boardId,         \* the address the Cell objects of Board.board live at
    heap,            \* how many addresses the allocator cycles through
    age,             \* Board.age
    states,          \* Board.states
    new_board,       \* advance's local copy
    newId,           \* the address of the copy
    pc,              \* position of the main program
    inTry,           \* TRUE while control is inside the try block of __main__
    frames,          \* number of frames printed
    shown,           \* Board.age of the last frame printed, -1 before the first
    outfile,         \* content of conway.txt
    writes,          \* number of times f.writelines ran
    msgs,            \* number of completion messages printed
    exitStatus,      \* "running", "success" (SystemExit) or "traceback"
    intrCount,       \* number of KeyboardInterrupts raised so far
    intrAt,          \* pc at which the first KeyboardInterrupt was raised
    terminated,      \* TRUE once end() has been entered
    endBy,           \* who called end() first: "none", "rule" or "interrupt"
    inAdvance,       \* TRUE while an advance call has started and not finished its updates
    hist,            \* the cell states of the boards whose hashes are in states
    prev,            \* the board before the last advance
    size,            \* os.get_terminal_size(): <<columns, lines>>
    argv,            \* sys.argv[1:], each argument a sequence of characters
    density,         \* the module-level DENSITY
    done             \* the cells the loop of advance has visited (row-major numbers)

vars == <<width, height, board, boardId, heap, age, states, new_board, newId,
          pc, inTry, frames, shown, outfile, writes, msgs, exitStatus,
          intrCount, intrAt, terminated, endBy, inAdvance, hist, prev,
          size, argv, density, done>>

\* ---------------------------------------------------------------- helpers
Min(a, b) == IF a < b THEN a ELSE b
Max(a, b) == IF a > b THEN a ELSE b

Range(s) == {s[i] : i \in DOMAIN s}

\* Python's clamping of one slice bound i for a sequence of length n
SliceBound(i, n) == IF i < 0 THEN Max(i + n, 0) ELSE Min(i, n)

\* the indices selected by seq[lo:hi] on a sequence of length n
SliceIdx(lo, hi, n) ==
    {i \in 0..(n - 1) : SliceBound(lo, n) <= i /\ i < SliceBound(hi, n)}

\* s[-n:] on a tuple, keeping one entry too many
LastN_offByOne(s, n) ==
    IF Len(s) <= n + 1 THEN s ELSE SubSeq(s, Len(s) - n, Len(s))

\* s[-n:] on a tuple
LastN(s, n) ==
    IF Len(s) <= n THEN s ELSE SubSeq(s, Len(s) - n + 1, Len(s))

\* ------------------------------------------------------------------ Board
\* Board.neighbours without the "- cell.alive" of line 103
neighbours_countsSelf(b, W, H, x, y) ==
    LET left0 == x - 1
        right0 == x + 1
        top0 == y - 1
        bottom0 == y + 1
        left == IF left0 = -1 THEN left0 + 1 ELSE left0
        right == IF right0 = W THEN right0 - 1 ELSE right0
        top == IF top0 = -1 THEN top0 + 1 ELSE top0
        bottom == IF bottom0 = W THEN bottom0 - 1 ELSE bottom0
        rows == SliceIdx(top, bottom + 1, H)
        cols == SliceIdx(left, right + 1, W)
    IN  Cardinality({rc \in rows \X cols : b[rc[1]][rc[2]] = 1})

\* Board.neighbours without lines 92-93: left = -1 reaches the slice
neighbours_noLeftClip(b, W, H, x, y) ==
    LET left == x - 1
        right0 == x + 1
        top0 == y - 1
        bottom0 == y + 1
        right == IF right0 = W THEN right0 - 1 ELSE right0
        top == IF top0 = -1 THEN top0 + 1 ELSE top0
        bottom == IF bottom0 = W THEN bottom0 - 1 ELSE bottom0
        rows == SliceIdx(top, bottom + 1, H)
        cols == SliceIdx(left, right + 1, W)
    IN  Cardinality({rc \in rows \X cols : b[rc[1]][rc[2]] = 1}) - b[y][x]

\* Board.neighbours, with get_subgrid
neighbours(b, W, H, x, y) ==
    LET left0 == x - 1
        right0 == x + 1
        top0 == y - 1
        bottom0 == y + 1
        left == IF left0 = -1 THEN left0 + 1 ELSE left0
        right == IF right0 = W THEN right0 - 1 ELSE right0
        top == IF top0 = -1 THEN top0 + 1 ELSE top0
        bottom == IF bottom0 = W THEN bottom0 - 1 ELSE bottom0
        rows == SliceIdx(top, bottom + 1, H)
        cols == SliceIdx(left, right + 1, W)
    IN  Cardinality({rc \in rows \X cols : b[rc[1]][rc[2]] = 1}) - b[y][x]

\* the branches of advance for one cell: the cell's state in new_board
NextAlive_survive4(alive, n) ==
    IF alive = 1
    THEN (IF n \in {2, 3, 4} THEN 1 ELSE 0)
    ELSE (IF n = 3 THEN 1 ELSE 0)

\* the branches of advance with "in [2, 3]" written as "<= 3"
NextAlive_noUnderpopulation(alive, n) ==
    IF alive = 1
    THEN (IF n <= 3 THEN 1 ELSE 0)
    ELSE (IF n = 3 THEN 1 ELSE 0)

NextAlive(alive, n) ==
    IF alive = 1
    THEN (IF n \in {2, 3} THEN 1 ELSE 0)
    ELSE (IF n = 3 THEN 1 ELSE 0)

\* new_board at line 131: the deep copy after every die() and regen()
Advance(b, W, H) ==
    [y \in 0..(H - 1) |->
        [x \in 0..(W - 1) |-> NextAlive(b[y][x], neighbours(b, W, H, x, y))]]

\* Board.print_row
print_row(row, W) == [i \in 1..W |-> IF row[i - 1] = 1 THEN ALIVE ELSE DEAD]

\* Board.__str__: the rows joined by line breaks
RECURSIVE JoinRows(_, _, _, _)
JoinRows(b, W, H, y) ==
    IF y = H - 1 THEN print_row(b[y], W)
    ELSE print_row(b[y], W) \o <<"\n">> \o JoinRows(b, W, H, y + 1)

Str(b, W, H) == IF H <= 0 THEN <<>> ELSE JoinRows(b, W, H, 0)

\* hash(self.board): Cell defines neither __eq__ nor __hash__, so the hash of
\* the tuple of tuples of Cells is a function of the Cells' addresses only
Hash(id) == id

\* the address deepcopy allocates the copy at: never the one of the live board
AllocCopy(id, h) == (id + 1) % h

\* the condition of line 141
StabilityRule_ge(a, st) ==
    a >= AgeThreshold /\ Cardinality(Range(st)) < MinDistinct

StabilityRule(a, st) ==
    a > AgeThreshold /\ Cardinality(Range(st)) < MinDistinct

\* ------------------------------------------------------------ input grids
\* the grid of W x H cells whose alive cells are those numbered in A (row-major)
GridOf(W, H, A) ==
    [y \in 0..(H - 1) |-> [x \in 0..(W - 1) |-> IF (y * W + x) \in A THEN 1 ELSE 0]]

Blinker5 == GridOf(5, 5, {11, 12, 13})
Block4 == GridOf(4, 4, {5, 6, 9, 10})

\* the grids the main program is started on
Seeds ==
    {<<5, 5, Blinker5>>, <<4, 4, Block4>>} \cup
    UNION {{<<wh[1], wh[2], GridOf(wh[1], wh[2], A)>> :
                A \in SUBSET (0..(wh[1] * wh[2] - 1))} :
           wh \in {d \in (1..MaxSeedCells) \X (1..MaxSeedCells) :
                      d[1] * d[2] <= MaxSeedCells}}

\* ------------------------------------------------- the program: __main__
LoopPcs == {"render", "sleep", "advance", "assign", "incr", "append", "trim", "check"}
EndPcs == {"end_open", "end_write", "end_print", "end_exit"}
StartPcs == {"args", "construct"}
CellPcs == {"cells_copy", "cells_loop", "cells_assign", "cells_done"}
InterruptiblePcs == StartPcs \cup LoopPcs \cup CellPcs \cup EndPcs

\* Board.__init__ (lines 56-67) followed by entry into the try block
Init ==
    /\ \E s \in Seeds : width = s[1] /\ height = s[2] /\ board = s[3]
    /\ boardId = 0
    /\ heap \in 2..MaxHeap
    /\ age = 0
    /\ states = <<Hash(boardId)>>
    /\ new_board = board
    /\ newId = 0
    /\ pc = "render"
    /\ inTry = TRUE
    /\ frames = 0
    /\ shown = -1
    /\ outfile = <<>>
    /\ writes = 0
    /\ msgs = 0
    /\ exitStatus = "running"
    /\ intrCount = 0
    /\ intrAt = "none"
    /\ terminated = FALSE
    /\ endBy = "none"
    /\ inAdvance = FALSE
    /\ hist = <<board>>
    /\ prev = board
    /\ size = <<width, height + 3>>
    /\ argv = <<>>
    /\ density = DENSITY
    /\ done = {}

\* lines 174-176: clear the screen, print the board and the help line
Render ==
    /\ pc = "render"
    /\ frames' = frames + 1
    /\ shown' = age
    /\ pc' = "sleep"
    /\ UNCHANGED <<size, argv, density, done, width, height, board, boardId, heap, age, states, new_board,
                   newId, inTry, outfile, writes, msgs, exitStatus, intrCount,
                   intrAt, terminated, endBy, inAdvance, hist, prev>>

\* line 177
Sleep ==
    /\ pc = "sleep"
    /\ pc' = "advance"
    /\ UNCHANGED <<size, argv, density, done, width, height, board, boardId, heap, age, states, new_board,
                   newId, inTry, frames, shown, outfile, writes, msgs,
                   exitStatus, intrCount, intrAt, terminated, endBy, inAdvance,
                   hist, prev>>

\* lines 112-129: the deep copy and the loop over the cells, which writes
\* only to the copy
AdvanceCopy ==
    /\ pc = "advance"
    /\ age < MaxAge
    /\ new_board' = Advance(board, width, height)
    /\ newId' = AllocCopy(boardId, heap)
    /\ inAdvance' = TRUE
    /\ pc' = "assign"
    /\ UNCHANGED <<size, argv, density, done, width, height, board, boardId, heap, age, states, inTry,
                   frames, shown, outfile, writes, msgs, exitStatus, intrCount,
                   intrAt, terminated, endBy, hist, prev>>

\* lines 131-132
AdvanceAssign ==
    /\ pc = "assign"
    /\ prev' = board
    /\ board' = new_board
    /\ boardId' = newId
    /\ pc' = "incr"
    /\ UNCHANGED <<size, argv, density, done, width, height, heap, age, states, new_board, newId, inTry,
                   frames, shown, outfile, writes, msgs, exitStatus, intrCount,
                   intrAt, terminated, endBy, inAdvance, hist>>

\* line 134 adding 2
AdvanceIncr_twice ==
    /\ pc = "incr"
    /\ age' = age + 2
    /\ pc' = "append"
    /\ UNCHANGED <<size, argv, density, done, width, height, board, boardId,
                   heap, states, new_board, newId, inTry, frames, shown,
                   outfile, writes, msgs, exitStatus, intrCount, intrAt,
                   terminated, endBy, inAdvance, hist, prev>>

\* line 134
AdvanceIncr ==
    /\ pc = "incr"
    /\ age' = age + 1
    /\ pc' = "append"
    /\ UNCHANGED <<size, argv, density, done, width, height, board, boardId, heap, states, new_board,
                   newId, inTry, frames, shown, outfile, writes, msgs,
                   exitStatus, intrCount, intrAt, terminated, endBy, inAdvance,
                   hist, prev>>

\* line 135 putting the new hash first
AdvanceAppend_prepend ==
    /\ pc = "append"
    /\ states' = <<Hash(boardId)>> \o states
    /\ hist' = Append(hist, board)
    /\ pc' = "trim"
    /\ UNCHANGED <<size, argv, density, done, width, height, board, boardId,
                   heap, age, new_board, newId, inTry, frames, shown, outfile,
                   writes, msgs, exitStatus, intrCount, intrAt, terminated,
                   endBy, inAdvance, prev>>

\* line 135
AdvanceAppend ==
    /\ pc = "append"
    /\ states' = Append(states, Hash(boardId))
    /\ hist' = Append(hist, board)
    /\ pc' = "trim"
    /\ UNCHANGED <<size, argv, density, done, width, height, board, boardId, heap, age, new_board, newId,
                   inTry, frames, shown, outfile, writes, msgs, exitStatus,
                   intrCount, intrAt, terminated, endBy, inAdvance, prev>>

\* line 138
AdvanceTrim ==
    /\ pc = "trim"
    /\ states' = LastN(states, HistoryCap)
    /\ hist' = LastN(hist, HistoryCap)
    /\ pc' = "check"
    /\ UNCHANGED <<size, argv, density, done, width, height, board, boardId, heap, age, new_board, newId,
                   inTry, frames, shown, outfile, writes, msgs, exitStatus,
                   intrCount, intrAt, terminated, endBy, inAdvance, prev>>

\* lines 141-142: end() is called inside advance, hence inside the try block;
\* otherwise advance returns to the loop
AdvanceCheck ==
    /\ pc = "check"
    /\ inAdvance' = FALSE
    /\ IF StabilityRule(age, states)
       THEN /\ pc' = "end_open"
            /\ terminated' = TRUE
            /\ endBy' = "rule"
       ELSE /\ pc' = "render"
            /\ UNCHANGED <<terminated, endBy>>
    /\ UNCHANGED <<size, argv, density, done, width, height, board, boardId, heap, age, states, new_board,
                   newId, inTry, frames, shown, outfile, writes, msgs,
                   exitStatus, intrCount, intrAt, hist, prev>>

\* lines 147-151: open(outname, "w") creates or truncates conway.txt
EndOpen ==
    /\ pc = "end_open"
    /\ outfile' = <<>>
    /\ pc' = "end_write"
    /\ UNCHANGED <<size, argv, density, done, width, height, board, boardId, heap, age, states, new_board,
                   newId, inTry, frames, shown, writes, msgs, exitStatus,
                   intrCount, intrAt, terminated, endBy, inAdvance, hist, prev>>

\* line 152 writing the grid the last advance started from
EndWrite_previous ==
    /\ pc = "end_write"
    /\ outfile' = outfile \o Str(prev, width, height)
    /\ writes' = writes + 1
    /\ pc' = "end_print"
    /\ UNCHANGED <<size, argv, density, done, width, height, board, boardId,
                   heap, age, states, new_board, newId, inTry, frames, shown,
                   msgs, exitStatus, intrCount, intrAt, terminated, endBy,
                   inAdvance, hist, prev>>

\* line 152: f.writelines(str(board)) on the module-level board
EndWrite ==
    /\ pc = "end_write"
    /\ outfile' = outfile \o Str(board, width, height)
    /\ writes' = writes + 1
    /\ pc' = "end_print"
    /\ UNCHANGED <<size, argv, density, done, width, height, board, boardId, heap, age, states, new_board,
                   newId, inTry, frames, shown, msgs, exitStatus, intrCount,
                   intrAt, terminated, endBy, inAdvance, hist, prev>>

\* line 153
EndPrint ==
    /\ pc = "end_print"
    /\ msgs' = msgs + 1
    /\ pc' = "end_exit"
    /\ UNCHANGED <<size, argv, density, done, width, height, board, boardId, heap, age, states, new_board,
                   newId, inTry, frames, shown, outfile, writes, exitStatus,
                   intrCount, intrAt, terminated, endBy, inAdvance, hist, prev>>

\* line 154, as if sys.exit() returned to the caller of end()
EndExit_returns ==
    /\ pc = "end_exit"
    /\ pc' = "render"
    /\ UNCHANGED <<size, argv, density, done, width, height, board, boardId, heap, age, states, new_board,
                   newId, inTry, frames, shown, outfile, writes, msgs,
                   exitStatus, intrCount, intrAt, terminated, endBy, inAdvance,
                   hist, prev>>

\* line 154: sys.exit() raises SystemExit, which "except KeyboardInterrupt"
\* does not catch
EndExit ==
    /\ pc = "end_exit"
    /\ pc' = "exited"
    /\ exitStatus' = "success"
    /\ UNCHANGED <<size, argv, density, done, width, height, board, boardId, heap, age, states, new_board,
                   newId, inTry, frames, shown, outfile, writes, msgs,
                   intrCount, intrAt, terminated, endBy, inAdvance, hist, prev>>

\* lines 172-180 without the except clause: every KeyboardInterrupt is fatal
Interrupt_uncaught ==
    /\ pc \in InterruptiblePcs
    /\ intrCount' = intrCount + 1
    /\ intrAt' = IF intrCount = 0 THEN pc ELSE intrAt
    /\ pc' = "crashed"
    /\ exitStatus' = "traceback"
    /\ UNCHANGED <<size, argv, density, done, width, height, board, boardId, heap, age, states, new_board,
                   newId, frames, shown, outfile, writes, msgs, inAdvance,
                   hist, prev, inTry, terminated, endBy>>

\* a KeyboardInterrupt raised before the statement at pc runs (lines 172-180):
\* inside the try block the handler calls end(); inside the handler's own
\* end() nothing catches it
Interrupt ==
    /\ pc \in InterruptiblePcs
    /\ intrCount' = intrCount + 1
    /\ intrAt' = IF intrCount = 0 THEN pc ELSE intrAt
    /\ IF inTry
       THEN /\ pc' = "end_open"
            /\ inTry' = FALSE
            /\ terminated' = TRUE
            /\ endBy' = IF endBy = "none" THEN "interrupt" ELSE endBy
            /\ UNCHANGED exitStatus
       ELSE /\ pc' = "crashed"
            /\ exitStatus' = "traceback"
            /\ UNCHANGED <<inTry, terminated, endBy>>
    /\ UNCHANGED <<size, argv, density, done, width, height, board, boardId, heap, age, states, new_board,
                   newId, frames, shown, outfile, writes, msgs, inAdvance,
                   hist, prev>>

Next ==
    \/ Render
    \/ Sleep
    \/ AdvanceCopy
    \/ AdvanceAssign
    \/ AdvanceIncr
    \/ AdvanceAppend
    \/ AdvanceTrim
    \/ AdvanceCheck
    \/ EndOpen
    \/ EndWrite
    \/ EndPrint
    \/ EndExit
    \/ Interrupt

Spec == Init /\ [][Next]_vars

\* ------------------------------------- the Board alone: advance on any grid
\* every grid of at most MaxCells cells, with every assignment of its cells
ExhaustiveGrids ==
    UNION {{<<wh[1], wh[2], GridOf(wh[1], wh[2], A)>> :
                A \in SUBSET (0..(wh[1] * wh[2] - 1))} :
           wh \in {d \in (1..MaxCells) \X (1..MaxCells) : d[1] * d[2] <= MaxCells}}

\* the empty grid, one cell, the 2x2 block, and the lines of three cells
Shapes ==
    { {},
      {<<0, 0>>},
      {<<0, 0>>, <<1, 0>>, <<0, 1>>, <<1, 1>>},
      {<<0, 0>>, <<1, 0>>, <<2, 0>>},
      {<<0, 0>>, <<0, 1>>, <<0, 2>>} }

\* every shape at every position of every grid of at most MaxDim x MaxDim
PatternGrids ==
    UNION {{<<wh[1], wh[2],
              GridOf(wh[1], wh[2],
                     {(at[2] + d[2]) * wh[1] + (at[1] + d[1]) : d \in sh})>> :
                at \in {p \in (0..(wh[1] - 1)) \X (0..(wh[2] - 1)) :
                          \A d \in sh : p[1] + d[1] < wh[1] /\ p[2] + d[2] < wh[2]}} :
           wh \in (1..MaxDim) \X (1..MaxDim), sh \in Shapes}

GridInputs == ExhaustiveGrids \cup PatternGrids

\* Board.__init__ with the cells' random draws giving any grid of GridInputs
InitGrid ==
    /\ \E s \in GridInputs : width = s[1] /\ height = s[2] /\ board = s[3]
    /\ boardId = 0
    /\ heap = 2
    /\ age = 0
    /\ states = <<Hash(boardId)>>
    /\ new_board = board
    /\ newId = 0
    /\ pc = "grid"
    /\ inTry = FALSE
    /\ frames = 0
    /\ shown = -1
    /\ outfile = <<>>
    /\ writes = 0
    /\ msgs = 0
    /\ exitStatus = "running"
    /\ intrCount = 0
    /\ intrAt = "none"
    /\ terminated = FALSE
    /\ endBy = "none"
    /\ inAdvance = FALSE
    /\ hist = <<board>>
    /\ prev = board
    /\ size = <<width, height + 3>>
    /\ argv = <<>>
    /\ density = DENSITY
    /\ done = {}

\* lines 112-134 of Board.advance: the new generation replaces the board
GridAdvance ==
    /\ pc = "grid"
    /\ age < MaxGridSteps
    /\ prev' = board
    /\ board' = Advance(board, width, height)
    /\ new_board' = board'
    /\ age' = age + 1
    /\ UNCHANGED <<size, argv, density, done, width, height, boardId, heap, states, newId, pc, inTry,
                   frames, shown, outfile, writes, msgs, exitStatus, intrCount,
                   intrAt, terminated, endBy, inAdvance, hist>>

NextGrid == GridAdvance

SpecGrid == InitGrid /\ [][NextGrid]_vars

\* ------------------------------------------- the program from its first line
Digits == {"0", "1", "2", "3", "4", "5", "6", "7", "8", "9"}

DigitVal ==
    ("0" :> 0) @@ ("1" :> 1) @@ ("2" :> 2) @@ ("3" :> 3) @@ ("4" :> 4) @@
    ("5" :> 5) @@ ("6" :> 6) @@ ("7" :> 7) @@ ("8" :> 8) @@ ("9" :> 9)

\* str.isnumeric(): non-empty and every character numeric; the vulgar
\* fraction is numeric without being a digit
IsNumeric(a) == Len(a) > 0 /\ \A i \in 1..Len(a) : a[i] \in Digits \cup {"1/2"}

\* int(s) parses: here s is numeric already, so it parses iff all are digits
IntParses(a) == Len(a) > 0 /\ \A i \in 1..Len(a) : a[i] \in Digits

\* int(s) of a string of decimal digits
RECURSIVE IntOf(_)
IntOf(a) ==
    IF Len(a) = 0 THEN 0
    ELSE IntOf(SubSeq(a, 1, Len(a) - 1)) * 10 + DigitVal[a[Len(a)]]

\* the command lines of SpecStart: sys.argv[1:]
Args ==
    { <<>>,
      << <<"1">> >>, << <<"9", "9">> >>, << <<"0">> >>, << <<"1", "0", "0">> >>,
      << <<"a", "b", "c">> >>, << <<"-", "5">> >>, << <<"+", "5">> >>,
      << <<"1/2">> >>, << <<>> >>,
      << <<"5", "0", "0">>, <<"7">> >> }

\* Cell.__init__, line 30: the states randint(0, 100) can give a cell
CellDraw(chance) == {IF r > chance THEN 0 ELSE 1 : r \in 0..100}

\* the first line of __main__: nothing is constructed yet (width, height and
\* the Board's fields hold placeholders)
InitStart ==
    /\ size \in (0..MaxCols) \X (0..MaxLines)
    /\ argv \in Args
    /\ density = DENSITY
    /\ done = {}
    /\ width = 0
    /\ height = 0
    /\ board = <<>>
    /\ boardId = 0
    /\ heap \in 2..MaxHeap
    /\ age = 0
    /\ states = <<>>
    /\ new_board = <<>>
    /\ newId = 0
    /\ pc = "args"
    /\ inTry = FALSE
    /\ frames = 0
    /\ shown = -1
    /\ outfile = <<>>
    /\ writes = 0
    /\ msgs = 0
    /\ exitStatus = "running"
    /\ intrCount = 0
    /\ intrAt = "none"
    /\ terminated = FALSE
    /\ endBy = "none"
    /\ inAdvance = FALSE
    /\ hist = <<>>
    /\ prev = <<>>

\* lines 160-164 accepting 0 and 100
ParseArgs_inclusive ==
    /\ pc = "args"
    /\ IF Len(argv) = 1
       THEN IF IsNumeric(argv[1]) /\ IntParses(argv[1])
               /\ 0 <= IntOf(argv[1]) /\ IntOf(argv[1]) <= 100
            THEN /\ density' = IntOf(argv[1])
                 /\ pc' = "construct"
                 /\ UNCHANGED exitStatus
            ELSE /\ pc' = "crashed"
                 /\ exitStatus' = "traceback"
                 /\ UNCHANGED density
       ELSE /\ pc' = "construct"
            /\ UNCHANGED <<density, exitStatus>>
    /\ UNCHANGED <<size, argv, done, width, height, board, boardId, heap, age,
                   states, new_board, newId, inTry, frames, shown, outfile,
                   writes, msgs, intrCount, intrAt, terminated, endBy,
                   inAdvance, hist, prev>>

\* lines 158-164: with exactly one argument, the ValueError of line 163 (or
\* of int() itself) unless it is numeric and strictly between 0 and 100
ParseArgs ==
    /\ pc = "args"
    /\ IF Len(argv) = 1
       THEN IF IsNumeric(argv[1]) /\ IntParses(argv[1])
               /\ 0 < IntOf(argv[1]) /\ IntOf(argv[1]) < 100
            THEN /\ density' = IntOf(argv[1])
                 /\ pc' = "construct"
                 /\ UNCHANGED exitStatus
            ELSE /\ pc' = "crashed"
                 /\ exitStatus' = "traceback"
                 /\ UNCHANGED density
       ELSE /\ pc' = "construct"
            /\ UNCHANGED <<density, exitStatus>>
    /\ UNCHANGED <<size, argv, done, width, height, board, boardId, heap, age,
                   states, new_board, newId, inTry, frames, shown, outfile,
                   writes, msgs, intrCount, intrAt, terminated, endBy,
                   inAdvance, hist, prev>>

\* lines 166-170 and Board.__init__ without the asserts of lines 54-55
Construct_noAssert ==
    /\ pc = "construct"
    /\ width' = size[1]
    /\ height' = size[2] - 3
    /\ board' \in [0..(height' - 1) -> [0..(width' - 1) -> CellDraw(density)]]
    /\ boardId' = 0
    /\ age' = 0
    /\ states' = <<Hash(boardId')>>
    /\ hist' = <<board'>>
    /\ prev' = board'
    /\ new_board' = board'
    /\ newId' = 0
    /\ inTry' = TRUE
    /\ pc' = "render"
    /\ UNCHANGED exitStatus
    /\ UNCHANGED <<size, argv, density, done, heap, frames, shown, outfile,
                   writes, msgs, intrCount, intrAt, terminated, endBy,
                   inAdvance>>

\* lines 166-170 and Board.__init__: the asserts of lines 54-55 raise before
\* any attribute is set; otherwise every cell is drawn and the try block entered
Construct ==
    /\ pc = "construct"
    /\ IF size[1] > 0 /\ size[2] - 3 > 0
       THEN /\ width' = size[1]
            /\ height' = size[2] - 3
            /\ board' \in [0..(height' - 1) -> [0..(width' - 1) -> CellDraw(density)]]
            /\ boardId' = 0
            /\ age' = 0
            /\ states' = <<Hash(boardId')>>
            /\ hist' = <<board'>>
            /\ prev' = board'
            /\ new_board' = board'
            /\ newId' = 0
            /\ inTry' = TRUE
            /\ pc' = "render"
            /\ UNCHANGED exitStatus
       ELSE /\ pc' = "crashed"
            /\ exitStatus' = "traceback"
            /\ UNCHANGED <<width, height, board, boardId, age, states, hist,
                           prev, new_board, newId, inTry>>
    /\ UNCHANGED <<size, argv, density, done, heap, frames, shown, outfile,
                   writes, msgs, intrCount, intrAt, terminated, endBy,
                   inAdvance>>

NextStart ==
    \/ ParseArgs
    \/ Construct
    \/ Next

SpecStart == InitStart /\ [][NextStart]_vars

\* ---------------------------- one advance call, its loop followed cell by cell
\* Cell.die and Cell.regen
Die(alive) == IF alive = 1 THEN 0 ELSE alive
Regen(alive) == IF alive = 0 THEN 1 ELSE alive

LoopGrids ==
    UNION {{<<wh[1], wh[2], GridOf(wh[1], wh[2], A)>> :
                A \in SUBSET (0..(wh[1] * wh[2] - 1))} :
           wh \in {d \in (1..MaxLoopCells) \X (1..MaxLoopCells) :
                      d[1] * d[2] <= MaxLoopCells}}

\* the main loop has called board.advance() on a freshly constructed Board
InitCells ==
    /\ \E s \in LoopGrids : width = s[1] /\ height = s[2] /\ board = s[3]
    /\ boardId = 0
    /\ heap = 2
    /\ age = 0
    /\ states = <<Hash(boardId)>>
    /\ new_board = board
    /\ newId = 0
    /\ pc = "cells_copy"
    /\ inTry = TRUE
    /\ frames = 1
    /\ shown = 0
    /\ outfile = <<>>
    /\ writes = 0
    /\ msgs = 0
    /\ exitStatus = "running"
    /\ intrCount = 0
    /\ intrAt = "none"
    /\ terminated = FALSE
    /\ endBy = "none"
    /\ inAdvance = FALSE
    /\ hist = <<board>>
    /\ prev = board
    /\ size = <<width, height + 3>>
    /\ argv = <<>>
    /\ density = DENSITY
    /\ done = {}

\* line 112: new_board = deepcopy(self.board)
CellsCopy ==
    /\ pc = "cells_copy"
    /\ new_board' = board
    /\ newId' = AllocCopy(boardId, heap)
    /\ prev' = board
    /\ done' = {}
    /\ inAdvance' = TRUE
    /\ pc' = IF width * height = 0 THEN "cells_assign" ELSE "cells_loop"
    /\ UNCHANGED <<size, argv, density, width, height, board, boardId, heap,
                   age, states, inTry, frames, shown, outfile, writes, msgs,
                   exitStatus, intrCount, intrAt, terminated, endBy, hist>>

\* the body of the loop with neighbours counted on the copy being written
CellStep_readsCopy ==
    /\ pc = "cells_loop"
    /\ \E c \in (0..(width * height - 1)) \ done :
         LET x == c % width
             y == c \div width
             n == neighbours(new_board, width, height, x, y)
         IN  /\ new_board' =
                   [new_board EXCEPT ![y][x] =
                       IF new_board[y][x] = 1
                       THEN (IF n \in {2, 3} THEN @ ELSE Die(@))
                       ELSE (IF n = 3 THEN Regen(@) ELSE @)]
             /\ done' = done \cup {c}
             /\ pc' = IF done' = 0..(width * height - 1)
                      THEN "cells_assign" ELSE "cells_loop"
    /\ UNCHANGED <<size, argv, density, width, height, board, boardId, heap,
                   age, states, newId, inTry, frames, shown, outfile, writes,
                   msgs, exitStatus, intrCount, intrAt, terminated, endBy,
                   inAdvance, hist, prev>>

\* the body of the loop calling die() and regen() on the cells of self.board
CellStep_inPlace ==
    /\ pc = "cells_loop"
    /\ \E c \in (0..(width * height - 1)) \ done :
         LET x == c % width
             y == c \div width
             n == neighbours(board, width, height, x, y)
         IN  /\ board' =
                   [board EXCEPT ![y][x] =
                       IF board[y][x] = 1
                       THEN (IF n \in {2, 3} THEN @ ELSE Die(@))
                       ELSE (IF n = 3 THEN Regen(@) ELSE @)]
             /\ done' = done \cup {c}
             /\ pc' = IF done' = 0..(width * height - 1)
                      THEN "cells_assign" ELSE "cells_loop"
    /\ UNCHANGED <<size, argv, density, width, height, new_board, boardId,
                   heap, age, states, newId, inTry, frames, shown, outfile,
                   writes, msgs, exitStatus, intrCount, intrAt, terminated,
                   endBy, inAdvance, hist, prev>>

\* lines 114-129 for one cell: the cell and its neighbours are read from
\* self.board, die() or regen() is called on the cell of new_board at the
\* same coordinates.  The code visits the cells row by row; the cell is
\* drawn from all unvisited ones, row-major order being one of the orders
CellStep ==
    /\ pc = "cells_loop"
    /\ \E c \in (0..(width * height - 1)) \ done :
         LET x == c % width
             y == c \div width
             n == neighbours(board, width, height, x, y)
         IN  /\ new_board' =
                   [new_board EXCEPT ![y][x] =
                       IF board[y][x] = 1
                       THEN (IF n \in {2, 3} THEN @ ELSE Die(@))
                       ELSE (IF n = 3 THEN Regen(@) ELSE @)]
             /\ done' = done \cup {c}
             /\ pc' = IF done' = 0..(width * height - 1)
                      THEN "cells_assign" ELSE "cells_loop"
    /\ UNCHANGED <<size, argv, density, width, height, board, boardId, heap,
                   age, states, newId, inTry, frames, shown, outfile, writes,
                   msgs, exitStatus, intrCount, intrAt, terminated, endBy,
                   inAdvance, hist, prev>>

\* lines 131-132: self.board = new_board
CellsAssign ==
    /\ pc = "cells_assign"
    /\ board' = new_board
    /\ boardId' = newId
    /\ pc' = "cells_done"
    /\ UNCHANGED <<size, argv, density, done, width, height, heap, age, states,
                   new_board, newId, inTry, frames, shown, outfile, writes,
                   msgs, exitStatus, intrCount, intrAt, terminated, endBy,
                   inAdvance, hist, prev>>

NextCells ==
    \/ CellsCopy
    \/ CellStep
    \/ CellsAssign
    \/ Interrupt
    \/ EndOpen
    \/ EndWrite
    \/ EndPrint
    \/ EndExit

SpecCells == InitCells /\ [][NextCells]_vars

\* =================================================================== claims

\* the alive cells among the up to 8 in-grid positions around (x, y)
InGridNeighbours(b, W, H, x, y) ==
    Cardinality({d \in ({-1, 0, 1} \X {-1, 0, 1}) \ {<<0, 0>>} :
        /\ 0 <= x + d[1] /\ x + d[1] < W
        /\ 0 <= y + d[2] /\ y + d[2] < H
        /\ b[y + d[2]][x + d[1]] = 1})

C2_NeighboursCountsInGridBlock ==
    pc = "grid" =>
        \A y \in 0..(height - 1), x \in 0..(width - 1) :
            neighbours(board, width, height, x, y)
                = InGridNeighbours(board, width, height, x, y)

\* the grid's alive cells are exactly a 2x2 block
IsBlock(b, W, H) ==
    /\ W >= 2 /\ H >= 2
    /\ \E y0 \in 0..(H - 2), x0 \in 0..(W - 2) :
         \A y \in 0..(H - 1), x \in 0..(W - 1) :
            (b[y][x] = 1) <=> (x \in {x0, x0 + 1} /\ y \in {y0, y0 + 1})

\* C10: a grid whose only alive cells are a 2x2 block is unchanged by one advance
C10_BlockIsStillLife ==
    (pc = "grid" /\ age >= 1 /\ IsBlock(prev, width, height)) => board = prev

\* C3: any two grids of a run with the same alive/dead state at every
\* coordinate have equal fingerprints in Board.states
C3_EqualGridsEqualFingerprints ==
    \A i \in DOMAIN states, j \in DOMAIN states :
        hist[i] = hist[j] => states[i] = states[j]

\* C4: end() is called by the stability rule exactly when, after an advance,
\* age > 30 and the history holds fewer than 5 distinct fingerprints
C4_StabilityRuleExact ==
    /\ endBy = "rule" => (age > 30 /\ Cardinality(Range(states)) < 5)
    /\ (~terminated /\ pc \in {"render", "sleep", "advance", "assign"}) =>
            ~(age > 30 /\ Cardinality(Range(states)) < 5)
    /\ (endBy = "rule" \/ pc \in {"render", "sleep", "advance", "assign"}) =>
            Len(states) <= 30

\* C4 witness: the rule fired on a window of exactly 4 distinct fingerprints
C4_Witness ==
    endBy = "rule" /\ age = 31 /\ Cardinality(Range(states)) = 4

\* C5: after any number of completed advances the history holds at most 30
\* fingerprints, min(age + 1, 30) of them, hence exactly 30 once it is full
C5_HistoryCapped ==
    ~inAdvance =>
        /\ Len(states) <= 30
        /\ Len(states) = Min(age + 1, 30)
        /\ (age >= 29 => Len(states) = 30)

\* C5 witness: 100 advances have completed and the history holds 30 entries
C5_Witness ==
    ~inAdvance /\ age = 100 /\ Len(states) = 30 /\ ~terminated

\* C6: once end() has been entered, no advance runs, the grid, the generation
\* counter and the history never change, and no frame is rendered
C6_TerminatedAbsorbing ==
    [][terminated =>
          /\ terminated'
          /\ board' = board
          /\ age' = age
          /\ states' = states
          /\ frames' = frames
          /\ pc' \notin LoopPcs]_vars

\* C6 witness: the program has terminated through the stability rule
C6_Witness ==
    terminated /\ endBy = "rule" /\ pc = "exited"

\* C7: on every run that has ended, the grid's text was written exactly once
C7_WrittenExactlyOnce ==
    pc \in {"exited", "crashed"} => writes = 1

\* C8: a single KeyboardInterrupt raised in the loop (render, sleep, advance)
\* enters termination like the stability rule does: the current grid's text
\* is in conway.txt, the message is printed once, and the exit is SystemExit
C8_InterruptIsGraceful ==
    (intrCount = 1 /\ intrAt \in LoopPcs) =>
        /\ terminated
        /\ endBy = "interrupt"
        /\ pc \in EndPcs \cup {"exited"}
        /\ exitStatus # "traceback"
        /\ pc = "exited" =>
              /\ exitStatus = "success"
              /\ writes = 1
              /\ outfile = Str(board, width, height)
              /\ msgs = 1

\* C8 witness: an interrupt in the middle of advance, and the program has exited
C8_Witness ==
    intrCount = 1 /\ intrAt = "incr" /\ pc = "exited" /\ age >= 1

\* C9: when the grid's cell states took fewer than 5 distinct values over the
\* whole history and age exceeds 30, the stability rule has fired
C9_ShortPeriodFlagged ==
    (~inAdvance /\ intrCount = 0 /\ age > 30 /\ Cardinality(Range(hist)) < 5) =>
        endBy = "rule"

\* the vertical line (2,1),(2,2),(2,3) on the 5x5 grid
VBlinker5 == GridOf(5, 5, {7, 12, 17})

\* C11: on the 5x5 grid one advance turns the horizontal blinker
\* (1,2),(2,2),(3,2) into exactly the vertical line (2,1),(2,2),(2,3), and one
\* more advance turns that line into exactly the horizontal blinker again
C11_BlinkerPeriodTwo ==
    (pc = "grid" /\ age >= 1 /\ width = 5 /\ height = 5) =>
        /\ prev = Blinker5 =>
              \A y \in 0..4, x \in 0..4 :
                  (board[y][x] = 1) <=> (x = 2 /\ y \in {1, 2, 3})
        /\ (\A y \in 0..4, x \in 0..4 : (prev[y][x] = 1) <=> (x = 2 /\ y \in {1, 2, 3})) =>
              \A y \in 0..4, x \in 0..4 :
                  (board[y][x] = 1) <=> (y = 2 /\ x \in {1, 2, 3})

\* C11 witness: the horizontal blinker has been advanced twice and is back
C11_Witness ==
    /\ pc = "grid" /\ age = 2 /\ width = 5 /\ height = 5
    /\ prev = VBlinker5 /\ board = Blinker5

AllDead(b, W, H) == \A y \in 0..(H - 1), x \in 0..(W - 1) : b[y][x] = 0

AliveCount(b, W, H) ==
    Cardinality({c \in (0..(W - 1)) \X (0..(H - 1)) : b[c[2]][c[1]] = 1})

\* C12: a grid with every cell dead is still fully dead after an advance, and
\* a grid whose only alive cell is a single cell is fully dead after one advance
C12_ExtinctionPermanent ==
    (pc = "grid" /\ age >= 1) =>
        /\ AllDead(prev, width, height) => AllDead(board, width, height)
        /\ AliveCount(prev, width, height) = 1 => AllDead(board, width, height)

\* C12 witness: a single alive cell died and the grid then stayed dead
C12_Witness ==
    /\ pc = "grid" /\ age = 2 /\ width >= 2 /\ height >= 2
    /\ AllDead(prev, width, height) /\ AllDead(board, width, height)
    /\ AliveCount(hist[1], width, height) = 1

\* C13: Board.neighbours is never negative, at most 3 for a corner cell, at
\* most 5 for an edge cell that is no corner, and at most 8 for any cell
C13_NeighboursBounds ==
    pc = "grid" =>
        \A y \in 0..(height - 1), x \in 0..(width - 1) :
            LET n == neighbours(board, width, height, x, y)
                onX == x \in {0, width - 1}
                onY == y \in {0, height - 1}
            IN  /\ 0 <= n /\ n <= 8
                /\ (onX /\ onY) => n <= 3
                /\ (onX /\ ~onY) => n <= 5
                /\ (onY /\ ~onX) => n <= 5

\* C13 witness: the 3x3 grid with every cell alive, whose corners count 3,
\* edges 5 and centre 8
C13_Witness ==
    /\ pc = "grid" /\ width = 3 /\ height = 3
    /\ \A y \in 0..2, x \in 0..2 : board[y][x] = 1
    /\ neighbours(board, 3, 3, 0, 0) = 3
    /\ neighbours(board, 3, 3, 1, 0) = 5
    /\ neighbours(board, 3, 3, 1, 1) = 8

\* C14: Board.age is 0 at construction; line 134 of each advance call adds
\* exactly 1 to it, before the stability rule is evaluated; no other step
\* changes it; so it never decreases and counts the advance calls that have
\* reached line 134: one per frame printed, less the call still before line 134
C14_AgeCountsAdvances ==
    /\ age = 0
    /\ [][/\ (pc = "incr" /\ pc' = "append") => age' = age + 1
          /\ ~(pc = "incr" /\ pc' = "append") => age' = age
          /\ age' >= age]_vars
    /\ [](pc \in {"render"} => age = frames)
    /\ [](pc \in {"sleep", "advance", "assign", "incr"} => age = frames - 1)
    /\ [](pc \in {"append", "trim", "check"} => age = frames)

\* C14 witness: 100 advance calls have incremented the counter
C14_Witness ==
    age = 100 /\ frames = 100 /\ pc = "render"

\* C15: when the terminal gives width <= 0 or height = lines - 3 <= 0, the
\* construction fails before any cell is created: no Board exists, no frame
\* is rendered, no advance runs and no output file is written
C15_BadDimensionsRejected ==
    ((size[1] <= 0 \/ size[2] - 3 <= 0) /\ pc \notin StartPcs) =>
        /\ pc = "crashed"
        /\ exitStatus = "traceback"
        /\ board = <<>> /\ states = <<>> /\ hist = <<>>
        /\ frames = 0
        /\ age = 0 /\ ~inAdvance
        /\ writes = 0 /\ outfile = <<>> /\ msgs = 0
        /\ ~terminated

\* C15 witness: the argument was accepted and a terminal of 3 lines made
\* Board.__init__ fail
C15_Witness ==
    /\ size = <<1, 3>> /\ argv = << <<"9", "9">> >> /\ density = 99
    /\ intrCount = 0 /\ pc = "crashed"

\* C16: the density is always strictly between 0 and 100: 25 without an
\* argument, d for the single argument that is the decimal integer d with
\* 0 < d < 100, and for every other single argument the program fails before
\* the grid is constructed and before any frame is rendered or advanced
C16_DensityValidated ==
    /\ 0 < density /\ density < 100
    /\ (pc # "args" /\ intrAt # "args") =>
        /\ argv = <<>> => density = 25
        /\ argv = << <<"1">> >> => density = 1
        /\ argv = << <<"9", "9">> >> => density = 99
        /\ (Len(argv) = 1 /\ argv[1] \in {<<"1">>, <<"9", "9">>}
              /\ intrCount = 0 /\ size[1] > 0 /\ size[2] > 3) => pc # "crashed"
        /\ (Len(argv) = 1 /\ argv[1] \notin {<<"1">>, <<"9", "9">>}) =>
              /\ pc = "crashed"
              /\ exitStatus = "traceback"
              /\ board = <<>> /\ states = <<>>
              /\ frames = 0 /\ age = 0 /\ ~inAdvance
              /\ writes = 0

\* C16 witness: the grid was built with the density given and has advanced
C16_Witness ==
    argv = << <<"9", "9">> >> /\ density = 99 /\ frames >= 1 /\ age >= 1

\* the state advance's rules give the cell (x, y) of grid b
RuleState(b, W, H, x, y) ==
    LET n == neighbours(b, W, H, x, y)
    IN  IF (b[y][x] = 1 /\ n \in {2, 3}) \/ (b[y][x] = 0 /\ n = 3) THEN 1 ELSE 0

\* C17: while advance visits the cells, in any order, self.board is not
\* modified; only new_board is written, each visited cell from the counts on
\* the unmodified board; self.board is replaced only after every cell has
\* been visited, by the same grid whatever the order of the visits
C17_AdvanceReadsOldWritesNew ==
    /\ [][board' # board =>
            (pc = "cells_assign" /\ done = 0..(width * height - 1))]_vars
    /\ [](pc \in {"cells_loop", "cells_assign"} =>
            /\ board = prev
            /\ \A y \in 0..(height - 1), x \in 0..(width - 1) :
                  new_board[y][x] =
                      IF (y * width + x) \in done
                      THEN RuleState(prev, width, height, x, y)
                      ELSE prev[y][x])
    /\ [](pc = "cells_done" =>
            \A y \in 0..(height - 1), x \in 0..(width - 1) :
                board[y][x] = RuleState(prev, width, height, x, y))

\* C17 witness: the loop has changed a cell of the copy before visiting the
\* first cell of the first row, and the board is still the old one
C17_Witness ==
    /\ pc = "cells_loop" /\ done # {} /\ 0 \notin done
    /\ new_board # board /\ board = prev

\* text is the rendering of grid g: H rows of W glyphs joined by line breaks
IsRendering(text, g, W, H) ==
    /\ Len(text) = H * W + (H - 1)
    /\ \A y \in 0..(H - 1), x \in 0..(W - 1) :
          text[y * (W + 1) + x + 1] = IF g[y][x] = 1 THEN "O" ELSE " "
    /\ \A y \in 0..(H - 2) : text[(y + 1) * (W + 1)] = "\n"

\* C19: whenever conway.txt has been written, also by an interrupt in the
\* middle of advance, it holds height rows of width glyphs joined by line
\* breaks that render one complete generation: the whole pre-advance grid or
\* the whole post-advance grid
C19_FileIsOneGeneration ==
    (writes >= 1 /\ pc \in {"end_print", "end_exit", "exited"}) =>
        \/ IsRendering(outfile, prev, width, height)
        \/ IsRendering(outfile, Advance(prev, width, height), width, height)

\* C19 witness: an interrupt in the middle of the loop, after the copy was
\* changed, and the file holds the pre-advance grid
C19_Witness ==
    /\ pc = "exited" /\ intrAt = "cells_loop" /\ intrCount = 1
    /\ done # {} /\ new_board # prev
    /\ IsRendering(outfile, prev, width, height)

\* C18: after construction and after each advance has done its updates, the
\* history is the hashes of the last min(age + 1, 30) generations, oldest
\* first: entry i is the hash of generation age - Len + i, the last entry is
\* the hash of the board now owned, which is the advance of the board hashed
\* just before it, and line 141 is evaluated on generations age-29 .. age
C18_HistoryIsRecentGenerations ==
    (~inAdvance \/ pc = "check") =>
        /\ Len(states) = Min(age + 1, 30)
        /\ Len(hist) = Len(states)
        /\ states[Len(states)] = Hash(boardId)
        /\ hist[Len(hist)] = board
        /\ boardId = age % heap
        /\ \A i \in 1..Len(states) :
              states[i] = Hash((age - Len(states) + i) % heap)
        /\ Len(hist) >= 2 =>
              hist[Len(hist)] = Advance(hist[Len(hist) - 1], width, height)
        /\ age = 0 => states = <<Hash(boardId)>>

\* C18 witness: line 141 is about to be evaluated on a full history whose
\* oldest entry has been dropped several times
C18_Witness ==
    /\ pc = "check" /\ age = 35 /\ Len(states) = 30
    /\ states[1] # states[30]

\* C20: when the stability rule fires in the advance that makes generation n,
\* the file holds generation n, the board whose hash is the last history
\* entry, and the last frame printed is generation n - 1: generation n was
\* never printed, and each frame was printed before the advance replacing it
C20_WrittenOneAheadOfShown ==
    /\ shown <= age
    /\ pc = "sleep" => shown = age
    /\ endBy = "rule" =>
          /\ shown = age - 1
          /\ frames = age
          /\ states[Len(states)] = Hash(boardId)
          /\ hist[Len(hist)] = board
          /\ board = Advance(prev, width, height)
          /\ (writes >= 1 /\ pc \in {"end_print", "end_exit", "exited"}) =>
                IsRendering(outfile, board, width, height)

\* C20 witness: the rule fired on a grid that the last advance changed, and
\* the program has exited
C20_Witness ==
    /\ endBy = "rule" /\ pc = "exited" /\ intrCount = 0 /\ age = 31
    /\ board # prev /\ shown = 30
    /\ IsRendering(outfile, board, width, height)

====
